---- MODULE Spec2Model ----
(***************************************************************************)
(* Model of the grid-impacts-explorer page: the Sankey flow graph          *)
(* (buildSankeyGraph, layout, staged reveal, hover), the electricity donut *)
(* with its generation-mix bar, the impact-category and material-          *)
(* contribution bar charts, and the CountUp label.                         *)
(*                                                                         *)
(* Numbers with decimals are kept as integers in a fixed unit:             *)
(*   Sankey flow values      in 1/100   (0.1  is 10)                       *)
(*   donut impact/gridShare  in 1/1000  (0.001 is 1)                       *)
(*   generation shares       in 1/10    (2    is 20)                       *)
(*   impact-category values  in 1/100   (plotted values in the same unit) *)
(*   opacities               in 1/100   (0.42 is 42)                       *)
(* An optional JavaScript value (null / undefined or a value) is the empty *)
(* sequence or a one-element sequence; an object is a record and a field   *)
(* the object does not have is a field the record does not have.           *)
(*                                                                         *)
(* The React components hold disjoint state (each its own useState), so    *)
(* events of different components commute; a behaviour follows the events  *)
(* of the one component named by focus.  Focus "graph" follows the Sankey  *)
(* through its first render only, on every input list; focus "sankey"      *)
(* follows the mounted Sankey on the flows of SankeyFlows.                 *)
(*                                                                         *)
(* Spec delivers the mouse events in the browser's order (the leave of an  *)
(* element before the move on the next one).  SpecAnyOrder adds a move on  *)
(* one element delivered before the leave of another.  FairSpec adds that  *)
(* React runs pending passive effects and that the browser lets a pending  *)
(* timer's delay pass and runs its callback.                               *)
(***************************************************************************)
EXTENDS Integers, Sequences, FiniteSets, TLC

VARIABLES
    focus,            \* the component whose events this behaviour follows
    \* ---- SankeyVisualization
    sankeyData,       \* the flow edges imported from "@/data"
    skPhase,          \* "unmounted", "mounted", "crashed" (render threw), "destroyed"
    baseGraph,        \* useMemo(() => buildSankeyGraph(), [])
    graph,            \* the laid-out {nodes, links} of the layout useMemo
    size,             \* useContainerSize state {width, height}
    entryComplete,    \* useState(false)
    timers,           \* the pending window.setTimeout calls: records [id, ms, due]
    entryCleanup,     \* the timer the entry effect's cleanup clears: <<>> or <<id>>
    timerDirty,       \* the entry effect's deps [hasAnimated, nodes, links] changed
    pointer,          \* the element under the mouse pointer: <<>>, <<<<"link", i>>>>, <<<<"node", i>>>>
    pendingLeave,     \* an element whose mouseleave is still to be delivered: <<>> or <<el>>
    hoveredLinkKey,   \* useState<string | null>(null)
    hoveredLinkNodes, \* useState<[string, string] | null>(null)
    hoveredNodeName,  \* useState<string | null>(null)
    tooltip,          \* useState<{x, y, title, value} | null>(null)
    \* ---- reveal state of the four charts (ready is the material chart's flag)
    inViewport,       \* whether the chart's container intersects the viewport
    isInView,         \* useInView(ref, {once: true})
    hasAnimated,      \* useState(false): "sankey", "donut", "impact"
    ready,            \* useState(false): MaterialContributionChart
    revealDirty,      \* the reveal effect's deps [isInView, flag] changed
    \* ---- MaterialContributionChart
    plotDatasets,     \* the four datasets of plotData
    datasetKey,       \* useState<PlotDatasetKey>("materials")
    mcMemo,           \* the useMemo result {chartData, maxValue}
    \* ---- ElectricityDonutChart
    data,             \* the data prop
    donutMemo,        \* the useMemo result {sortedData, chartData, displayOrder}
    \* ---- ImpactCategoryComparisonChart
    impactCategories, \* expansionComparisonData.impactCategories
    impactChartData,  \* chartData of the last render
    \* ---- CountUp
    cuMounted,        \* the component is mounted
    cuProps,          \* the props: [start, target, startValue]
    cuStartValueRef,  \* useRef(startValue)
    cuCount,          \* the motion value count
    cuDisplay,        \* useState(startValue)
    cuAnims,          \* the animations started by animate() and neither stopped nor finished
    cuCleanup,        \* the animation the current effect's cleanup stops: <<>> or <<id>>
    cuNextId          \* number of animations started so far

sankeyVars == <<sankeyData, skPhase, baseGraph, graph, size, entryComplete, timers,
                entryCleanup, timerDirty, pointer, pendingLeave, hoveredLinkKey, hoveredLinkNodes,
                hoveredNodeName, tooltip>>
revealVars == <<inViewport, isInView, hasAnimated, ready, revealDirty>>
materialVars == <<plotDatasets, datasetKey, mcMemo>>
donutVars == <<data, donutMemo>>
impactVars == <<impactCategories, impactChartData>>
countUpVars == <<cuMounted, cuProps, cuStartValueRef, cuCount, cuDisplay, cuAnims, cuCleanup, cuNextId>>
vars == <<focus, sankeyVars, revealVars, materialVars, donutVars, impactVars, countUpVars>>

\* ------------------------------------------------------------------ helpers
None == <<>>
Some(x) == <<x>>

RECURSIVE SeqSum(_)
SeqSum(s) == IF s = <<>> THEN 0 ELSE Head(s) + SeqSum(Tail(s))

SetMax(S) == CHOOSE x \in S : \A y \in S : y <= x

Range(s) == {s[i] : i \in 1..Len(s)}

Max2(a, b) == IF a >= b THEN a ELSE b
Min2(a, b) == IF a <= b THEN a ELSE b

\* table[name] of a JavaScript object literal: undefined when there is no entry
Lookup(table, name) == IF name \in DOMAIN table THEN Some(table[name]) ELSE None

\* a || b for an optional string a: b when a is undefined or the empty string
OrElse(a, b) == IF a = None \/ a[1] = "" THEN b ELSE a[1]

\* a ?? b for an optional a
Coalesce(a, b) == IF a = None THEN b ELSE a[1]

\* ------------------------------------------------------------------ bounds
MaxEdges == 3
MaxAnims == 3
MaxTimers == 2

\* ------------------------------------------------------ Sankey: static data
NODE_COLORS ==
    ("grid status quo" :> "#17becf") @@
    ("cables" :> "#f97316") @@
    ("overhead lines" :> "#2563eb") @@
    ("transformers" :> "#22c55e") @@
    ("substations" :> "#ef4444") @@
    ("switchgears" :> "#a855f7") @@
    ("aluminum" :> "#60a5fa") @@
    ("copper" :> "#f87171") @@
    ("iron & steel" :> "#4ade80") @@
    ("plastics" :> "#c084fc") @@
    ("concrete" :> "#9ca3af") @@
    ("SF6" :> "#fbbf24") @@
    ("other materials" :> "#a3e635") @@
    ("electricity" :> "#64748b") @@
    ("heat" :> "#fcd34d") @@
    ("transport" :> "#22d3ee") @@
    ("coal" :> "#1e293b") @@
    ("clinker" :> "#65a30d") @@
    ("aluminum (process emissions)" :> "#d97706") @@
    ("iron & steel (process emissions)" :> "#dc2626") @@
    ("other processes" :> "#a855f7")

FALLBACK_GRAY == "#9ca3af"

\* the link filter of buildSankeyGraph keeps d.value > 0.1
LINK_MIN_VALUE == 10

\* The flow edges the inputs are drawn from (process -> material -> component):
\* a value below, at and above the threshold, a name without a colour entry
\* ("biogas"), and an edge that closes a cycle.
EdgePool ==
    << [source |-> "electricity", target |-> "aluminum", value |-> 250],
       [source |-> "aluminum",    target |-> "cables",   value |-> 120],
       [source |-> "electricity", target |-> "cables",   value |-> 10],
       [source |-> "heat",        target |-> "aluminum", value |-> 5],
       [source |-> "biogas",      target |-> "cables",   value |-> 30],
       [source |-> "cables",      target |-> "electricity", value |-> 40] >>

\* every list of at most MaxEdges pool edges (any order, with repetitions):
\* the inputs of buildSankeyGraph and of the first render
SankeyInputs == UNION { [1..n -> Range(EdgePool)] : n \in 0..MaxEdges }

\* the runs of at most MaxEdges consecutive pool edges: the flows the mounted
\* component is followed on
SankeyFlows ==
    { SubSeq(EdgePool, i, j) :
      i \in 1..Len(EdgePool), j \in 0..Len(EdgePool) } \cap SankeyInputs

\* ------------------------------------------------- Sankey: buildSankeyGraph
\* new Set<string>() filled by add(): the distinct values in insertion order
\* an array filled by push() in place of the Set: a name is added each time
RECURSIVE pushAll(_, _)
pushAll(acc, names) ==
    IF names = <<>> THEN acc ELSE pushAll(Append(acc, Head(names)), Tail(names))

RECURSIVE SetAddAll(_, _)
SetAddAll(acc, names) ==
    IF names = <<>> THEN acc
    ELSE SetAddAll(IF Head(names) \in Range(acc) THEN acc ELSE Append(acc, Head(names)),
                   Tail(names))

RECURSIVE EndpointNames(_)
EndpointNames(edges) ==
    IF edges = <<>> THEN <<>>
    ELSE <<Head(edges).source, Head(edges).target>> \o EndpointNames(Tail(edges))

\* the lookup without the || fallback: undefined for a name without an entry
nodeColorNoFallback(name) ==
    IF name \in DOMAIN NODE_COLORS THEN NODE_COLORS[name] ELSE "undefined"

nodeColor(name) == OrElse(Lookup(NODE_COLORS, name), FALLBACK_GRAY)

\* the fill of a node's rect: fill={node.color}
nodeFill(node) == node.color

\* the filter with >= in place of >
keepsLinkAtThreshold(d) == d.value >= LINK_MIN_VALUE

keepsLink(d) == d.value > LINK_MIN_VALUE

buildSankeyGraph(edges) ==
    LET nodeSet == SetAddAll(<<>>, EndpointNames(edges))
        nodes == [i \in 1..Len(nodeSet) |->
                     [name |-> nodeSet[i], color |-> nodeColor(nodeSet[i])]]
        kept == SelectSeq(edges, keepsLink)
        links == [i \in 1..Len(kept) |->
                     [source |-> kept[i].source, target |-> kept[i].target,
                      value |-> kept[i].value,
                      sourceName |-> kept[i].source, targetName |-> kept[i].target]]
    IN  [nodes |-> nodes, links |-> links]

\* ------------------------------------------------------ Sankey: the layout
\* useContainerSize: the initial size, and the size the ResizeObserver sets
INITIAL_WIDTH == 960
INITIAL_HEIGHT == 460
MIN_HEIGHT == 420
MAX_HEIGHT == 620

\* the container widths the ResizeObserver reports (min-w-[760px])
Widths == {760, 960}

containerSize(width) ==
    [width |-> width,
     height |-> Max2(MIN_HEIGHT, Min2(MAX_HEIGHT, (width * 55) \div 100))]

\* The graph handed to the layout: baseGraph.nodes.map((node) => ({...node})) and
\* the same for the links are new objects, so what the layout writes into them
\* is not written into baseGraph.  ref says whose objects the layout writes to.
\* the layout handed baseGraph.nodes and baseGraph.links themselves
layoutInputInPlace(base) == [ref |-> "base", nodes |-> base.nodes, links |-> base.links]

layoutInput(base) == [ref |-> "copy", nodes |-> base.nodes, links |-> base.links]

NODE_WIDTH == 22

\* d3-sankey computeNodeDepths: every node starts in column 0 and each round
\* moves the targets of the current nodes one column to the right; more rounds
\* than nodes is a circular link (the layout throws): None.
RECURSIVE NodeDepths(_, _, _, _, _)
NodeDepths(current, x, depth, links, n) ==
    IF current = {} THEN Some(depth)
    ELSE IF x + 1 > n THEN None
    ELSE NodeDepths({links[i].target : i \in {j \in 1..Len(links) : links[j].source \in current}},
                    x + 1,
                    [nm \in DOMAIN depth |-> IF nm \in current THEN x ELSE depth[nm]],
                    links, n)

\* d3-sankey computeNodeValues: the larger of the flow out of and into a node
nodeValue(links, nm) ==
    Max2(SeqSum([k \in 1..Len(links) |-> IF links[k].source = nm THEN links[k].value ELSE 0]),
         SeqSum([k \in 1..Len(links) |-> IF links[k].target = nm THEN links[k].value ELSE 0]))

\* d3-sankey computeNodeLayers with the default alignment (justify): a node
\* without outgoing links goes to the last column; x0 in whole pixels
nodeX0(links, width, depth, columns, nm) ==
    LET layer == IF \E k \in 1..Len(links) : links[k].source = nm
                 THEN depth[nm] ELSE columns - 1
    IN  IF columns = 1 THEN 0 ELSE ((width - NODE_WIDTH) * layer) \div (columns - 1)

\* the node objects after the layout: index, value, depth, x0 and x1 are set
laidNodes(nodes, links, width, depth, columns) ==
    [i \in 1..Len(nodes) |->
        [name |-> nodes[i].name, color |-> nodes[i].color, index |-> i - 1,
         value |-> nodeValue(links, nodes[i].name),
         depth |-> depth[nodes[i].name],
         x0 |-> nodeX0(links, width, depth, columns, nodes[i].name),
         x1 |-> nodeX0(links, width, depth, columns, nodes[i].name) + NODE_WIDTH]]

\* the link objects after the layout: index is set, source and target are the
\* node objects of their names
laidLinks(links, laid) ==
    [i \in 1..Len(links) |->
        [source |-> laid[CHOOSE k \in 1..Len(laid) : laid[k].name = links[i].source],
         target |-> laid[CHOOSE k \in 1..Len(laid) : laid[k].name = links[i].target],
         value |-> links[i].value,
         sourceName |-> links[i].sourceName,
         targetName |-> links[i].targetName,
         index |-> i - 1]]

layoutWith(nodes, links, width, depth) ==
    [nodes |-> laidNodes(nodes, links, width, depth,
                         SetMax({depth[nm] : nm \in DOMAIN depth} \cup {0}) + 1),
     links |-> laidLinks(links,
                         laidNodes(nodes, links, width, depth,
                                   SetMax({depth[nm] : nm \in DOMAIN depth} \cup {0}) + 1))]

optionalLayout(nodes, links, width, depths) ==
    IF depths = None THEN None ELSE Some(layoutWith(nodes, links, width, depths[1]))

\* d3Sankey().nodeId(d => d.name).nodeWidth(22).extent(...)(graph): the fields
\* it writes into the node and link objects it is given.  The vertical
\* geometry (y0, y1, width) is left out.  None when the layout throws.
d3Sankey(nodes, links, width) ==
    optionalLayout(nodes, links, width,
                   NodeDepths({nodes[i].name : i \in 1..Len(nodes)}, 0,
                              [nm \in {nodes[i].name : i \in 1..Len(nodes)} |-> 0],
                              links, Len(nodes)))

layoutResult(base, ref, out) ==
    [graph |-> out, base |-> IF ref = "base" /\ out # None THEN out[1] ELSE base]

\* One run of the layout useMemo on the base graph: the laid-out graph (None
\* when the layout throws) and the base graph as the run leaves it.
runLayout(base, width) ==
    layoutResult(base, layoutInput(base).ref,
                 d3Sankey(layoutInput(base).nodes, layoutInput(base).links, width))

\* ------------------------------------------- Sankey: staged entrance delays
layerDelayMs == 200
LINK_LEAD_MS == 160
ENTRY_BUFFER_MS == 900

nodeDelayMs(node) == (IF "depth" \in DOMAIN node THEN node.depth ELSE 0) * layerDelayMs

\* the link delay with a lead of a whole layer and more
linkDelayMsLate(link) ==
    (layerDelayMs + 60) + (IF "depth" \in DOMAIN link.source THEN link.source.depth ELSE 0) * layerDelayMs

linkDelayMs(link) ==
    LINK_LEAD_MS + (IF "depth" \in DOMAIN link.source THEN link.source.depth ELSE 0) * layerDelayMs

\* the delay of the entry-complete timer for the laid-out graph g
entryTimerMs(g) ==
    LET maxNodeDelay == IF Len(g.nodes) # 0
                        THEN SetMax({nodeDelayMs(g.nodes[i]) : i \in 1..Len(g.nodes)}) ELSE 0
        maxLinkDelay == IF Len(g.links) # 0
                        THEN SetMax({linkDelayMs(g.links[i]) : i \in 1..Len(g.links)}) ELSE 0
    IN  Max2(maxNodeDelay, maxLinkDelay) + ENTRY_BUFFER_MS

\* window.setTimeout: the handle of the new timer, one no pending timer has
setTimeoutId(pending) ==
    CHOOSE n \in 1..(Cardinality(pending) + 1) :
        /\ \A t \in pending : t.id # n
        /\ \A m \in 1..(n - 1) : \E t \in pending : t.id = m

\* window.clearTimeout(id)
clearTimeout(pending, id) == {t \in pending : t.id # id}

\* a cleanup that leaves the timer of the previous run pending
runEntryCleanupNoClear(pending, cleanup) == pending

\* the cleanup the entry effect returned, run before the effect runs again
\* and on unmount: () => window.clearTimeout(timer)
runEntryCleanup(pending, cleanup) ==
    IF cleanup = None THEN pending ELSE clearTimeout(pending, cleanup[1])

\* The entry effect, run with the hasAnimated of its render on the laid-out
\* graph g: it returns without a timer (and without a cleanup) while
\* hasAnimated is false, and otherwise arms the timer and returns its cleanup.
entryEffect(pending, flag, g) ==
    IF ~flag THEN [timers |-> pending, cleanup |-> None]
    ELSE [timers |-> pending \cup {[id |-> setTimeoutId(pending), ms |-> entryTimerMs(g),
                                    due |-> FALSE]},
          cleanup |-> Some(setTimeoutId(pending))]

\* the transitionDelay of the link paths, the node rects and the node labels:
\* hasAnimated && !entryComplete ? delay : "0ms"
linkTransitionDelayMs(link) ==
    IF hasAnimated["sankey"] /\ ~entryComplete THEN linkDelayMs(link) ELSE 0

\* the rect's delay without the entryComplete test
nodeTransitionDelayMsKept(node) ==
    IF hasAnimated["sankey"] THEN nodeDelayMs(node) ELSE 0

nodeTransitionDelayMs(node) ==
    IF hasAnimated["sankey"] /\ ~entryComplete THEN nodeDelayMs(node) ELSE 0

labelTransitionDelayMs(node) ==
    IF hasAnimated["sankey"] /\ ~entryComplete THEN nodeDelayMs(node) ELSE 0

\* the durations of the transitions of a link path, a node rect and a node
\* label (transform, stroke/fill opacity, opacity; transform, opacity)
linkTransitionsMs == {640, 640, 740}
nodeTransitionsMs == {640, 640, 740}
labelTransitionsMs == {920, 640}

\* ----------------------------------------------------------- Sankey: hover
linkKey(link) ==
    IF "index" \in DOMAIN link THEN ToString(link.index)
    ELSE link.sourceName \o "-" \o link.targetName

\* the four hover states as one record, and the four handlers
hoverState == [tooltip |-> tooltip, hoveredLinkKey |-> hoveredLinkKey,
               hoveredLinkNodes |-> hoveredLinkNodes, hoveredNodeName |-> hoveredNodeName]

\* the handler without setHoveredLinkNodes
onLinkMouseMoveKeyOnly(h, link) ==
    [h EXCEPT !.hoveredLinkKey = Some(linkKey(link)),
              !.tooltip = Some([title |-> link.sourceName \o " -> " \o link.targetName,
                                value |-> Some(link.value)])]

onLinkMouseMove(h, link) ==
    [h EXCEPT !.hoveredLinkKey = Some(linkKey(link)),
              !.hoveredLinkNodes = Some(<<link.sourceName, link.targetName>>),
              !.tooltip = Some([title |-> link.sourceName \o " -> " \o link.targetName,
                                value |-> Some(link.value)])]

\* the handler without setHoveredLinkNodes(null)
onLinkMouseLeaveKeepsNodes(h) ==
    [h EXCEPT !.tooltip = None, !.hoveredLinkKey = None]

onLinkMouseLeave(h) ==
    [h EXCEPT !.tooltip = None, !.hoveredLinkKey = None, !.hoveredLinkNodes = None]

onNodeMouseMove(h, node) ==
    [h EXCEPT !.hoveredNodeName = Some(node.name),
              !.tooltip = Some([title |-> node.name,
                                value |-> IF "value" \in DOMAIN node
                                          THEN Some(node.value) ELSE None])]

\* the handler without setTooltip(null)
onNodeMouseLeaveKeepsTooltip(h) ==
    [h EXCEPT !.hoveredNodeName = None]

onNodeMouseLeave(h) ==
    [h EXCEPT !.tooltip = None, !.hoveredNodeName = None]

\* rendered opacities, in 1/100
LINK_OPACITY_HIGHLIGHT == 42
LINK_OPACITY_DIMMED == 10
LINK_OPACITY_IDLE == 35
NODE_OPACITY_HIGHLIGHT == 95
NODE_OPACITY_DIMMED == 30
NODE_OPACITY_IDLE == 90

linkOpacity(link) ==
    LET isHighlighted == \/ hoveredLinkKey = Some(linkKey(link))
                         \/ hoveredNodeName = Some(link.sourceName)
                         \/ hoveredNodeName = Some(link.targetName)
        isDimming == hoveredLinkKey # None \/ hoveredNodeName # None
    IN  IF hasAnimated["sankey"]
        THEN IF isDimming
             THEN IF isHighlighted THEN LINK_OPACITY_HIGHLIGHT ELSE LINK_OPACITY_DIMMED
             ELSE LINK_OPACITY_IDLE
        ELSE 0

nodeOpacity(node) ==
    LET nodeHighlighted == \/ hoveredNodeName = Some(node.name)
                           \/ (hoveredLinkNodes # None /\ node.name \in Range(hoveredLinkNodes[1]))
        nodeDimming == hoveredLinkKey # None \/ hoveredNodeName # None \/ hoveredLinkNodes # None
    IN  IF hasAnimated["sankey"]
        THEN IF nodeDimming
             THEN IF nodeHighlighted THEN NODE_OPACITY_HIGHLIGHT ELSE NODE_OPACITY_DIMMED
             ELSE NODE_OPACITY_IDLE
        ELSE 0

\* the label of a node: opacity={hasAnimated ? 0.95 : 0}
labelOpacity(node) == IF hasAnimated["sankey"] THEN NODE_OPACITY_HIGHLIGHT ELSE 0

\* elements that take pointer events from the first render
acceptsPointerAlways == TRUE

\* pointerEvents: hasAnimated ? "auto" : "none"
acceptsPointer == hasAnimated["sankey"]

\* ------------------------------------------------------- plotData datasets
materials ==
    << [label |-> "Other materials", BAU |-> 4, scen3 |-> 4, scen2 |-> 4, scen15 |-> 3],
       [label |-> "Concrete", BAU |-> 4, scen3 |-> 4, scen2 |-> 3, scen15 |-> 3],
       [label |-> "Plastics", BAU |-> 6, scen3 |-> 5, scen2 |-> 5, scen15 |-> 5],
       [label |-> "SF6", BAU |-> 7, scen3 |-> 7, scen2 |-> 7, scen15 |-> 7],
       [label |-> "Copper", BAU |-> 15, scen3 |-> 13, scen2 |-> 11, scen15 |-> 11],
       [label |-> "Iron & Steel", BAU |-> 20, scen3 |-> 18, scen2 |-> 17, scen15 |-> 16],
       [label |-> "Aluminum", BAU |-> 44, scen3 |-> 35, scen2 |-> 33, scen15 |-> 31] >>

components ==
    << [label |-> "Substations", BAU |-> 1, scen3 |-> 1, scen2 |-> 1, scen15 |-> 1],
       [label |-> "Transformers", BAU |-> 4, scen3 |-> 4, scen2 |-> 3, scen15 |-> 3],
       [label |-> "Switchgears", BAU |-> 8, scen3 |-> 8, scen2 |-> 8, scen15 |-> 8],
       [label |-> "Cables", BAU |-> 43, scen3 |-> 35, scen2 |-> 32, scen15 |-> 30],
       [label |-> "Overhead lines", BAU |-> 44, scen3 |-> 38, scen2 |-> 36, scen15 |-> 34] >>

processes ==
    << [label |-> "Other processes", BAU |-> 11, scen3 |-> 10, scen2 |-> 10, scen15 |-> 9],
       [label |-> "Clinker", BAU |-> 3, scen3 |-> 4, scen2 |-> 4, scen15 |-> 3],
       [label |-> "Aluminum (process emissions)", BAU |-> 6, scen3 |-> 6, scen2 |-> 6, scen15 |-> 6],
       [label |-> "SF6", BAU |-> 7, scen3 |-> 7, scen2 |-> 7, scen15 |-> 7],
       [label |-> "Coal", BAU |-> 8, scen3 |-> 7, scen2 |-> 6, scen15 |-> 6],
       [label |-> "Transport", BAU |-> 9, scen3 |-> 8, scen2 |-> 8, scen15 |-> 8],
       [label |-> "Heat", BAU |-> 11, scen3 |-> 11, scen2 |-> 10, scen15 |-> 10],
       [label |-> "Iron & steel (process emissions)", BAU |-> 11, scen3 |-> 10, scen2 |-> 10, scen15 |-> 9],
       [label |-> "Electricity", BAU |-> 34, scen3 |-> 23, scen2 |-> 19, scen15 |-> 18] >>

expansion ==
    << [label |-> "2023 -> 2025", BAU |-> 10, scen3 |-> 10, scen2 |-> 10, scen15 |-> 10],
       [label |-> "2025 -> 2030", BAU |-> 26, scen3 |-> 25, scen2 |-> 25, scen15 |-> 25],
       [label |-> "2030 -> 2035", BAU |-> 26, scen3 |-> 22, scen2 |-> 21, scen15 |-> 20],
       [label |-> "2035 -> 2040", BAU |-> 20, scen3 |-> 16, scen2 |-> 13, scen15 |-> 12],
       [label |-> "2040 -> 2045", BAU |-> 18, scen3 |-> 13, scen2 |-> 11, scen15 |-> 9] >>

\* the datasets with the first row of expansion left out
plotDatasetsRowDropped ==
    [materials |-> materials, components |-> components,
     processes |-> processes, expansion |-> Tail(expansion)]

plotDatasetsLiteral ==
    [materials |-> materials, components |-> components,
     processes |-> processes, expansion |-> expansion]

PlotDatasetKeys == {"materials", "components", "processes", "expansion"}

scenarioOrder == <<"scen3", "scen2", "scen15">>

ScenarioColumns == {"BAU", "scen3", "scen2", "scen15"}

columnSum(rows, col) == SeqSum([i \in 1..Len(rows) |-> rows[i][col]])

\* ----------------------------------------------- MaterialContributionChart
\* /other/i.test(category), over the labels of the four datasets
isOther(category) == category \in {"Other materials", "Other processes"}

\* the comparator of entries.sort: positive when a is to come after b
compareEntries(a, b) ==
    IF isOther(a.category) /\ ~isOther(b.category) THEN 1
    ELSE IF ~isOther(a.category) /\ isOther(b.category) THEN -1
    ELSE b.BAU - a.BAU

\* Array.prototype.sort is stable: insert x after the last element it is not
\* to come before
RECURSIVE InsertSorted(_, _)
InsertSorted(sorted, x) ==
    IF sorted = <<>> THEN <<x>>
    ELSE IF compareEntries(Head(sorted), x) > 0 THEN <<x>> \o sorted
    ELSE <<Head(sorted)>> \o InsertSorted(Tail(sorted), x)

RECURSIVE SortEntries(_)
SortEntries(entries) ==
    IF entries = <<>> THEN <<>>
    ELSE InsertSorted(SortEntries(SubSeq(entries, 1, Len(entries) - 1)), entries[Len(entries)])

\* the entry with the row's values whether ready or not
chartEntryNotZeroed(row, isReady) ==
    [category |-> row.label, BAU |-> row.BAU, scen3 |-> row.scen3,
     scen2 |-> row.scen2, scen15 |-> row.scen15]

\* the entry of one row: the category and the four bars
chartEntry(row, isReady) ==
    [category |-> row.label,
     BAU |-> IF isReady THEN row.BAU ELSE 0,
     scen3 |-> IF isReady THEN row.scen3 ELSE 0,
     scen2 |-> IF isReady THEN row.scen2 ELSE 0,
     scen15 |-> IF isReady THEN row.scen15 ELSE 0]

\* the memo with maxValue taken from the entries (zeroed until ready) instead
\* of from the rows
materialMemoMaxOfEntries(datasets, key, isReady) ==
    LET rows == datasets[key]
        entries == [i \in 1..Len(rows) |-> chartEntry(rows[i], isReady)]
        maxVal == SetMax({entries[i][c] : i \in 1..Len(rows), c \in ScenarioColumns} \cup {0})
    IN  [chartData |-> IF key = "expansion" THEN entries ELSE SortEntries(entries),
         maxValue |-> maxVal,
         rows |-> rows]

\* The chartData / maxValue useMemo.  rows.map builds a new array and the sort
\* is applied to that array, so the dataset's own array is left as it was:
\* rows is the dataset's array after the computation.
materialMemo(datasets, key, isReady) ==
    LET rows == datasets[key]
        entries == [i \in 1..Len(rows) |-> chartEntry(rows[i], isReady)]
        maxVal == SetMax({rows[i][c] : i \in 1..Len(rows), c \in ScenarioColumns} \cup {0})
    IN  [chartData |-> IF key = "expansion" THEN entries ELSE SortEntries(entries),
         maxValue |-> maxVal,
         rows |-> rows]

Y_MAX_CAP == 120

\* Math.min(Math.ceil(Math.max(maxValue, 1) * 1.05), 120)
yMax(maxValue) == Min2((Max2(maxValue, 1) * 105 + 99) \div 100, Y_MAX_CAP)

\* --------------------------------------------------- ElectricityDonutChart
ELECTRICITY_COLORS ==
    ("Coal" :> "#52525b") @@
    ("Gas" :> "#f97316") @@
    ("Wind" :> "#3b82f6") @@
    ("Solar" :> "#eab308") @@
    ("Biomass" :> "#22c55e") @@
    ("Nuclear" :> "#fbbf24") @@
    ("Hydro" :> "#06b6d4") @@
    ("Hydrogen" :> "#ed7577ff") @@
    ("Other" :> "#9ca3af") @@
    ("Grid infrastructure" :> "#1e40af")

GRID == "Grid infrastructure"
GRID_GRADIENT == "url(#gridGrad)"
GRID_DEFAULT_COLOR == "#1e40af"

\* const MIN_VALUE = 0.001
MIN_VALUE == 1

\* filter(([, v]) => v && v.share >= 2)
MIN_SHARE == 20

electricityColor(name) == OrElse(Lookup(ELECTRICITY_COLORS, name), FALLBACK_GRAY)

\* the generation sources of the inputs, in the key order of the record
\* ("Tidal" has no colour entry)
GenOrder == <<"Coal", "Wind", "Tidal">>

\* Object.entries(generation): the keys present, in key order
generationEntries(generation) ==
    SelectSeq([i \in 1..Len(GenOrder) |->
                  IF GenOrder[i] \in DOMAIN generation
                  THEN [name |-> GenOrder[i], value |-> generation[GenOrder[i]].impact,
                        share |-> generation[GenOrder[i]].share,
                        fill |-> electricityColor(GenOrder[i])]
                  ELSE [name |-> ""]],
              LAMBDA e : e.name # "")

\* sort((a, b) => b.value - a.value), stable
RECURSIVE InsertByValue(_, _)
InsertByValue(sorted, x) ==
    IF sorted = <<>> THEN <<x>>
    ELSE IF x.value - Head(sorted).value > 0 THEN <<x>> \o sorted
    ELSE <<Head(sorted)>> \o InsertByValue(Tail(sorted), x)

RECURSIVE SortByValue(_)
SortByValue(entries) ==
    IF entries = <<>> THEN <<>>
    ELSE InsertByValue(SortByValue(SubSeq(entries, 1, Len(entries) - 1)), entries[Len(entries)])

zeroValue(entry) == [entry EXCEPT !.value = 0]

\* the sortedData / chartData / displayOrder useMemo
donutMemoOf(d, animated) ==
    LET pieData == SelectSeq(generationEntries(d.generation), LAMBDA e : e.value > MIN_VALUE)
                   \o << [name |-> GRID, value |-> d.gridShare, share |-> 0,
                          fill |-> Coalesce(Lookup(ELECTRICITY_COLORS, GRID), GRID_DEFAULT_COLOR)] >>
        ordered == SortByValue(SelectSeq(pieData, LAMBDA e : e.name # GRID))
                   \o << pieData[CHOOSE i \in 1..Len(pieData) :
                                    /\ pieData[i].name = GRID
                                    /\ \A j \in 1..(i - 1) : pieData[j].name # GRID] >>
    IN  [sortedData |-> ordered,
         chartData |-> IF animated THEN ordered
                       ELSE [i \in 1..Len(ordered) |-> zeroValue(ordered[i])],
         displayOrder |-> [i \in 1..Len(ordered) |-> ordered[i].name]]

\* the fill of the slice's cell
cellFill(entry) == IF entry.name = GRID THEN GRID_GRADIENT ELSE entry.fill

\* Number(((share / total) * 100).toFixed(1)), in 1/10
scaledShare(share, total) == (2000 * share + total) \div (2 * total)

\* GenerationStackBar: the segments of the one stacked row, in display order:
\* name, value (in 1/10) and fill.  No segments when it renders null.
stackBarSegments(generation, order, animate) ==
    LET present == SelectSeq(order, LAMBDA name :
                       name \in DOMAIN generation /\ generation[name].share >= MIN_SHARE)
        total == SeqSum([i \in 1..Len(present) |-> generation[present[i]].share])
    IN  IF total = 0 THEN <<>>
        ELSE [i \in 1..Len(present) |->
                 [name |-> present[i],
                  value |-> IF animate THEN scaledShare(generation[present[i]].share, total)
                            ELSE 0,
                  fill |-> electricityColor(present[i])]]

\* ------------------------------------------- ImpactCategoryComparisonChart
fullDatum(item) ==
    [category |-> item.category, base |-> item.base * 100,
     pkBudg1000 |-> item.pkBudg1000 * 100, pkBudg650 |-> item.pkBudg650 * 100]

zeroDatum(d) == [d EXCEPT !.base = 0, !.pkBudg1000 = 0, !.pkBudg650 = 0]

impactChartDataOf(items, animated) ==
    [i \in 1..Len(items) |->
        IF animated THEN fullDatum(items[i]) ELSE zeroDatum(fullDatum(items[i]))]

\* ------------------------------------------------------------------ inputs
Focuses == {"graph", "sankey", "donut", "impact", "material", "countup"}
Charts == {"sankey", "donut", "impact", "material"}

\* generation-mix records: a share (in 1/10) and an impact (in 1/1000) for
\* each source, the shares summing to approximately 100
ShareValues == {10, 490, 500}
ImpactValues == {1, 400}
GridShares == {220}

DonutInputs ==
    { [gridShare |-> g, generation |-> gen] :
        g \in GridShares,
        gen \in { f \in [Range(GenOrder) -> [share : ShareValues, impact : ImpactValues]] :
                    LET total == f["Coal"].share + f["Wind"].share + f["Tidal"].share
                    IN  total >= 950 /\ total <= 1050 } }

defaultDonutData ==
    [gridShare |-> 220,
     generation |-> [nm \in Range(GenOrder) |->
                        IF nm = "Coal" THEN [share |-> 500, impact |-> 400]
                        ELSE IF nm = "Wind" THEN [share |-> 490, impact |-> 400]
                        ELSE [share |-> 10, impact |-> 1]]]

\* impact categories: relative changes (in 1/100) of the three scenarios
ChangeValues == {-25, 12}

ImpactInputs ==
    { << [category |-> "Climate change", base |-> a, pkBudg1000 |-> b, pkBudg650 |-> c],
         [category |-> "Land use", base |-> d, pkBudg1000 |-> e, pkBudg650 |-> f] >> :
        a \in ChangeValues, b \in ChangeValues, c \in ChangeValues,
        d \in ChangeValues, e \in ChangeValues, f \in ChangeValues }

defaultImpactCategories ==
    << [category |-> "Climate change", base |-> -25, pkBudg1000 |-> -25, pkBudg650 |-> 12],
       [category |-> "Land use", base |-> 12, pkBudg1000 |-> 12, pkBudg650 |-> -25] >>

\* CountUp props
Targets == {0, 22, 50}
StartValues == {0, 22}

emptyGraph == [nodes |-> <<>>, links |-> <<>>]

\* -------------------------------------------------------------------- Init
Init ==
    /\ focus \in Focuses
    /\ sankeyData \in (IF focus = "graph" THEN SankeyInputs
                       ELSE IF focus = "sankey" THEN SankeyFlows ELSE {<<>>})
    /\ skPhase = "unmounted"
    /\ baseGraph = emptyGraph
    /\ graph = emptyGraph
    /\ size = [width |-> INITIAL_WIDTH, height |-> INITIAL_HEIGHT]
    /\ entryComplete = FALSE
    /\ timers = {}
    /\ entryCleanup = None
    /\ timerDirty = FALSE
    /\ pointer = None
    /\ pendingLeave = None
    /\ hoveredLinkKey = None
    /\ hoveredLinkNodes = None
    /\ hoveredNodeName = None
    /\ tooltip = None
    /\ inViewport = [c \in Charts |-> FALSE]
    /\ isInView = [c \in Charts |-> FALSE]
    /\ hasAnimated = [c \in Charts \ {"material"} |-> FALSE]
    /\ ready = FALSE
    /\ revealDirty = [c \in Charts |-> FALSE]
    /\ plotDatasets = plotDatasetsLiteral
    /\ datasetKey = "materials"
    /\ mcMemo = [chartData |-> materialMemo(plotDatasetsLiteral, "materials", FALSE).chartData,
                 maxValue |-> materialMemo(plotDatasetsLiteral, "materials", FALSE).maxValue]
    /\ data \in (IF focus = "donut" THEN DonutInputs ELSE {defaultDonutData})
    /\ donutMemo = donutMemoOf(data, FALSE)
    /\ impactCategories \in (IF focus = "impact" THEN ImpactInputs ELSE {defaultImpactCategories})
    /\ impactChartData = impactChartDataOf(impactCategories, FALSE)
    /\ cuMounted = TRUE
    /\ cuProps \in (IF focus = "countup"
                    THEN [start : {FALSE}, target : Targets, startValue : StartValues]
                    ELSE {[start |-> FALSE, target |-> 22, startValue |-> 0]})
    /\ cuStartValueRef = cuProps.startValue
    /\ cuCount = cuProps.startValue
    /\ cuDisplay = cuProps.startValue
    /\ cuAnims = {}
    /\ cuCleanup = None
    /\ cuNextId = 0

\* ---------------------------------------------------------- Sankey actions
\* The first render: buildSankeyGraph and the first layout run at the initial
\* size.  A layout that throws (circular link) ends the component.  After the
\* first commit both effects have run with hasAnimated false: no timer.
MountSankey ==
    /\ focus \in {"graph", "sankey"}
    /\ skPhase = "unmounted"
    /\ LET run == runLayout(buildSankeyGraph(sankeyData), size.width)
       IN  /\ baseGraph' = run.base
           /\ skPhase' = IF run.graph = None THEN "crashed" ELSE "mounted"
           /\ graph' = IF run.graph = None THEN graph ELSE run.graph[1]
    /\ UNCHANGED <<focus, sankeyData, size, entryComplete, timers, entryCleanup, timerDirty,
                   pointer, pendingLeave,
                   hoveredLinkKey, hoveredLinkNodes, hoveredNodeName, tooltip>>
    /\ UNCHANGED <<revealVars, materialVars, donutVars, impactVars, countUpVars>>

\* The ResizeObserver callback: setSize, and the layout useMemo runs again
\* when chartWidth or chartHeight changed; the new nodes and links are new
\* objects, so the entry effect's deps changed.
ResizeSankey(width) ==
    /\ focus = "sankey"
    /\ skPhase = "mounted"
    /\ LET newSize == containerSize(width)
           run == runLayout(baseGraph, newSize.width)
       IN  /\ size' = newSize
           /\ IF newSize # size /\ run.graph # None
              THEN /\ graph' = run.graph[1]
                   /\ baseGraph' = run.base
                   /\ timerDirty' = TRUE
              ELSE UNCHANGED <<graph, baseGraph, timerDirty>>
    /\ UNCHANGED <<focus, sankeyData, skPhase, entryComplete, timers, entryCleanup, pointer, pendingLeave,
                   hoveredLinkKey, hoveredLinkNodes, hoveredNodeName, tooltip>>
    /\ UNCHANGED <<revealVars, materialVars, donutVars, impactVars, countUpVars>>

\* useInView(ref, {once: true}): what the hook's state becomes when the
\* IntersectionObserver reports the container
useInViewNext(current, intersecting) == IF intersecting THEN TRUE ELSE current

\* the effect as setFlag(isInView && !flag)
revealNextToggle(inView, flag) == inView /\ ~flag

\* if (isInView && !flag) setFlag(true): the flag after the reveal effect
revealNext(inView, flag) == IF inView /\ ~flag THEN TRUE ELSE flag

\* The passive effects of one commit of the Sankey, in source order: the reveal
\* effect when its deps changed, then the entry effect when its deps changed
\* (its cleanup clears the timer of the previous run; it arms a new one only
\* when the hasAnimated of this render is true).
SankeyEffects ==
    /\ focus = "sankey"
    /\ skPhase = "mounted"
    /\ revealDirty["sankey"] \/ timerDirty
    /\ LET flag == hasAnimated["sankey"]
           next == IF revealDirty["sankey"] THEN revealNext(isInView["sankey"], flag) ELSE flag
       IN  /\ hasAnimated' = [hasAnimated EXCEPT !["sankey"] = next]
           /\ revealDirty' = [revealDirty EXCEPT !["sankey"] = (next # flag)]
           /\ timerDirty' = (next # flag)
           /\ IF timerDirty
              THEN LET run == entryEffect(runEntryCleanup(timers, entryCleanup), flag, graph)
                   IN  /\ Cardinality(run.timers) <= MaxTimers
                       /\ timers' = run.timers
                       /\ entryCleanup' = run.cleanup
              ELSE UNCHANGED <<timers, entryCleanup>>
    /\ UNCHANGED <<focus, sankeyData, skPhase, baseGraph, graph, size, entryComplete, pointer, pendingLeave,
                   hoveredLinkKey, hoveredLinkNodes, hoveredNodeName, tooltip>>
    /\ UNCHANGED <<inViewport, isInView, ready>>
    /\ UNCHANGED <<materialVars, donutVars, impactVars, countUpVars>>

\* the delay of a pending timer has passed: the browser may run its callback
TimerElapse(t) ==
    /\ focus = "sankey"
    /\ t \in timers
    /\ ~t.due
    /\ timers' = (timers \ {t}) \cup {[t EXCEPT !.due = TRUE]}
    /\ UNCHANGED <<focus, sankeyData, skPhase, baseGraph, graph, size, entryComplete,
                   entryCleanup, timerDirty, pointer, pendingLeave, hoveredLinkKey, hoveredLinkNodes,
                   hoveredNodeName, tooltip>>
    /\ UNCHANGED <<revealVars, materialVars, donutVars, impactVars, countUpVars>>

\* the browser runs the callback of a timer that is due: setEntryComplete(true)
TimerFire(t) ==
    /\ focus = "sankey"
    /\ t \in timers
    /\ t.due
    /\ entryComplete' = TRUE
    /\ timers' = timers \ {t}
    /\ UNCHANGED <<focus, sankeyData, skPhase, baseGraph, graph, size, entryCleanup, timerDirty,
                   pointer, pendingLeave, hoveredLinkKey, hoveredLinkNodes, hoveredNodeName, tooltip>>
    /\ UNCHANGED <<revealVars, materialVars, donutVars, impactVars, countUpVars>>

SetHover(h) ==
    /\ tooltip' = h.tooltip
    /\ hoveredLinkKey' = h.hoveredLinkKey
    /\ hoveredLinkNodes' = h.hoveredLinkNodes
    /\ hoveredNodeName' = h.hoveredNodeName

\* Unmount: the effect cleanups run (clearTimeout, observer.disconnect); the
\* component's elements and its hover state are gone.
UnmountSankey ==
    /\ focus = "sankey"
    /\ skPhase = "mounted"
    /\ skPhase' = "destroyed"
    /\ timers' = runEntryCleanup(timers, entryCleanup)
    /\ entryCleanup' = None
    /\ timerDirty' = FALSE
    /\ revealDirty' = [revealDirty EXCEPT !["sankey"] = FALSE]
    /\ pointer' = None
    /\ pendingLeave' = None
    /\ SetHover([tooltip |-> None, hoveredLinkKey |-> None, hoveredLinkNodes |-> None,
                 hoveredNodeName |-> None])
    /\ UNCHANGED <<focus, sankeyData, baseGraph, graph, size, entryComplete>>
    /\ UNCHANGED <<inViewport, isInView, hasAnimated, ready>>
    /\ UNCHANGED <<materialVars, donutVars, impactVars, countUpVars>>

\* the elements that take pointer events: the link paths and the node rects
Elements == {<<"link", i>> : i \in 1..Len(graph.links)} \cup
            {<<"node", i>> : i \in 1..Len(graph.nodes)}

leaveHandler(h, el) == IF el[1] = "link" THEN onLinkMouseLeave(h) ELSE onNodeMouseLeave(h)

moveHandler(h, el) ==
    IF el[1] = "link" THEN onLinkMouseMove(h, graph.links[el[2]])
    ELSE onNodeMouseMove(h, graph.nodes[el[2]])

\* The pointer moves onto (or within) an element: the browser dispatches the
\* mouseleave of the element it was over before the mousemove of the new one.
dispatchMove(h, over, el) ==
    moveHandler(IF over # None /\ over[1] # el THEN leaveHandler(h, over[1]) ELSE h, el)

PointerMove(el) ==
    /\ focus = "sankey"
    /\ skPhase = "mounted"
    /\ acceptsPointer
    /\ SetHover(dispatchMove(hoverState, pointer, el))
    /\ pointer' = Some(el)
    /\ UNCHANGED <<focus, sankeyData, skPhase, baseGraph, graph, size, entryComplete, timers,
                   entryCleanup, timerDirty, pendingLeave>>
    /\ UNCHANGED <<revealVars, materialVars, donutVars, impactVars, countUpVars>>

\* the pointer leaves the element it is over for no element
PointerLeave ==
    /\ focus = "sankey"
    /\ skPhase = "mounted"
    /\ acceptsPointer
    /\ pointer # None
    /\ SetHover(leaveHandler(hoverState, pointer[1]))
    /\ pointer' = None
    /\ UNCHANGED <<focus, sankeyData, skPhase, baseGraph, graph, size, entryComplete, timers,
                   entryCleanup, timerDirty, pendingLeave>>
    /\ UNCHANGED <<revealVars, materialVars, donutVars, impactVars, countUpVars>>

\* A mousemove on an element delivered before the mouseleave of the element
\* the pointer was over: only the move handler runs, the leave is still to come.
MoveBeforeLeave(el) ==
    /\ focus = "sankey"
    /\ skPhase = "mounted"
    /\ acceptsPointer
    /\ pointer # None
    /\ pointer[1] # el
    /\ pendingLeave = None
    /\ SetHover(moveHandler(hoverState, el))
    /\ pendingLeave' = pointer
    /\ pointer' = Some(el)
    /\ UNCHANGED <<focus, sankeyData, skPhase, baseGraph, graph, size, entryComplete, timers,
                   entryCleanup, timerDirty>>
    /\ UNCHANGED <<revealVars, materialVars, donutVars, impactVars, countUpVars>>

\* the mouseleave that was still to come is delivered
LateLeave ==
    /\ focus = "sankey"
    /\ skPhase = "mounted"
    /\ pendingLeave # None
    /\ SetHover(leaveHandler(hoverState, pendingLeave[1]))
    /\ pendingLeave' = None
    /\ UNCHANGED <<focus, sankeyData, skPhase, baseGraph, graph, size, entryComplete, timers,
                   entryCleanup, timerDirty, pointer>>
    /\ UNCHANGED <<revealVars, materialVars, donutVars, impactVars, countUpVars>>

\* ------------------------------------------------- reveal of the four charts
chartMounted(c) == IF c = "sankey" THEN skPhase = "mounted" ELSE TRUE

flagOf(c) == IF c = "material" THEN ready ELSE hasAnimated[c]

\* The IntersectionObserver of useInView reports the container; a change of
\* isInView re-renders the chart, and the reveal effect's deps changed.
ObserveInView(c, intersecting) ==
    /\ focus = c
    /\ chartMounted(c)
    /\ inViewport[c] # intersecting
    /\ inViewport' = [inViewport EXCEPT ![c] = intersecting]
    /\ LET next == useInViewNext(isInView[c], intersecting)
       IN  /\ isInView' = [isInView EXCEPT ![c] = next]
           /\ revealDirty' = [revealDirty EXCEPT ![c] = revealDirty[c] \/ next # isInView[c]]
    /\ UNCHANGED <<focus, hasAnimated, ready>>
    /\ UNCHANGED <<sankeyVars, materialVars, donutVars, impactVars, countUpVars>>

ScrollIntoView(c) == ObserveInView(c, TRUE)

ScrollOutOfView(c) == ObserveInView(c, FALSE)

\* the render of each chart after its flag was set: the memo whose deps hold
\* the flag is computed again
RenderMaterial(key, isReady) ==
    LET memo == materialMemo(plotDatasets, key, isReady)
    IN  /\ mcMemo' = [chartData |-> memo.chartData, maxValue |-> memo.maxValue]
        /\ plotDatasets' = [plotDatasets EXCEPT ![key] = memo.rows]

\* The reveal effect of the donut, the impact-category chart and the material
\* chart, and the render that follows when it set the flag.
RevealEffect(c) ==
    /\ focus = c
    /\ c # "sankey"
    /\ revealDirty[c]
    /\ LET next == revealNext(isInView[c], flagOf(c))
       IN  /\ revealDirty' = [revealDirty EXCEPT ![c] = (next # flagOf(c))]
           /\ IF c = "material"
              THEN /\ ready' = next
                   /\ UNCHANGED hasAnimated
                   /\ IF next # ready
                      THEN /\ RenderMaterial(datasetKey, next)
                           /\ UNCHANGED datasetKey
                      ELSE UNCHANGED materialVars
                   /\ UNCHANGED <<donutVars, impactVars>>
              ELSE /\ hasAnimated' = [hasAnimated EXCEPT ![c] = next]
                   /\ UNCHANGED <<ready, materialVars>>
                   /\ IF c = "donut"
                      THEN /\ donutMemo' = IF next # hasAnimated[c]
                                           THEN donutMemoOf(data, next) ELSE donutMemo
                           /\ UNCHANGED <<data, impactVars>>
                      ELSE /\ impactChartData' = impactChartDataOf(impactCategories, next)
                           /\ UNCHANGED <<impactCategories, donutVars>>
    /\ UNCHANGED <<focus, inViewport, isInView>>
    /\ UNCHANGED <<sankeyVars, countUpVars>>

\* onClick={() => setDatasetKey(option.key)}
SelectDataset(key) ==
    /\ focus = "material"
    /\ key # datasetKey
    /\ datasetKey' = key
    /\ RenderMaterial(key, ready)
    /\ UNCHANGED <<focus, sankeyVars, revealVars, donutVars, impactVars, countUpVars>>

\* The scenario Select of the page hands the donut another data prop; the
\* memo comparator dataIsEqual lets the render through when the data differ.
SelectScenario(d) ==
    /\ focus = "donut"
    /\ d # data
    /\ data' = d
    /\ donutMemo' = donutMemoOf(d, hasAnimated["donut"])
    /\ UNCHANGED <<focus, sankeyVars, revealVars, materialVars, impactVars, countUpVars>>

\* ----------------------------------------------------------------- CountUp
\* animate(count, target, ...): the motion value stops the animation it has
\* and starts the new one
animate(anims, id, from, to) == {[id |-> id, from |-> from, to |-> to]}

\* an effect that returns no cleanup: nothing is stopped
runCleanupNoStop(anims, cleanup) == anims

\* controls.stop() of the cleanup the effect returned (no cleanup: nothing)
runCleanup(anims, cleanup) ==
    IF cleanup = None THEN anims ELSE {a \in anims : a.id # cleanup[1]}

\* A render with new props and the effects of its commit: the startValue ref
\* is updated when startValue changed; when start or target changed (or
\* duration, delay or decimals: depsChanged) the old effect's cleanup runs and
\* the effect runs again.
CountUpRender(props, depsChanged) ==
    /\ focus = "countup"
    /\ cuMounted
    /\ props # cuProps \/ depsChanged
    /\ cuProps' = props
    /\ cuStartValueRef' = props.startValue
    /\ IF props.start # cuProps.start \/ props.target # cuProps.target \/ depsChanged
       THEN LET stopped == runCleanup(cuAnims, cuCleanup)
                from == props.startValue
                starts == props.start /\ props.target # from
            IN  /\ cuCount' = from
                /\ cuDisplay' = from
                /\ starts => cuNextId < MaxAnims
                /\ cuAnims' = IF starts THEN animate(stopped, cuNextId, from, props.target)
                              ELSE stopped
                /\ cuCleanup' = IF starts THEN Some(cuNextId) ELSE None
                /\ cuNextId' = IF starts THEN cuNextId + 1 ELSE cuNextId
       ELSE UNCHANGED <<cuCount, cuDisplay, cuAnims, cuCleanup, cuNextId>>
    /\ UNCHANGED <<focus, cuMounted>>
    /\ UNCHANGED <<sankeyVars, revealVars, materialVars, donutVars, impactVars>>

\* a frame of a running animation: onUpdate: (v) => setDisplay(...)
AnimTick(a, v) ==
    /\ focus = "countup"
    /\ a \in cuAnims
    /\ cuCount' = v
    /\ cuDisplay' = v
    /\ UNCHANGED <<focus, cuMounted, cuProps, cuStartValueRef, cuAnims, cuCleanup, cuNextId>>
    /\ UNCHANGED <<sankeyVars, revealVars, materialVars, donutVars, impactVars>>

\* the animation reached its target and ends
AnimFinish(a) ==
    /\ focus = "countup"
    /\ a \in cuAnims
    /\ cuCount = a.to
    /\ cuAnims' = cuAnims \ {a}
    /\ UNCHANGED <<focus, cuMounted, cuProps, cuStartValueRef, cuCount, cuDisplay, cuCleanup,
                   cuNextId>>
    /\ UNCHANGED <<sankeyVars, revealVars, materialVars, donutVars, impactVars>>

\* unmount: the effect's cleanup runs
CountUpUnmount ==
    /\ focus = "countup"
    /\ cuMounted
    /\ cuMounted' = FALSE
    /\ cuAnims' = runCleanup(cuAnims, cuCleanup)
    /\ cuCleanup' = None
    /\ UNCHANGED <<focus, cuProps, cuStartValueRef, cuCount, cuDisplay, cuNextId>>
    /\ UNCHANGED <<sankeyVars, revealVars, materialVars, donutVars, impactVars>>

\* -------------------------------------------------------------------- Next
Next ==
    \/ MountSankey
    \/ focus = "sankey" /\ \E w \in Widths : ResizeSankey(w)
    \/ SankeyEffects
    \/ focus = "sankey" /\ \E t \in timers : TimerElapse(t)
    \/ focus = "sankey" /\ \E t \in timers : TimerFire(t)
    \/ UnmountSankey
    \/ focus = "sankey" /\ \E el \in Elements : PointerMove(el)
    \/ PointerLeave
    \/ \E c \in Charts : ScrollIntoView(c)
    \/ \E c \in Charts : ScrollOutOfView(c)
    \/ \E c \in Charts : RevealEffect(c)
    \/ focus = "material" /\ \E k \in PlotDatasetKeys : SelectDataset(k)
    \/ focus = "donut" /\ \E d \in DonutInputs : SelectScenario(d)
    \/ focus = "countup" /\
          \E p \in [start : BOOLEAN, target : Targets, startValue : StartValues],
             ch \in BOOLEAN : CountUpRender(p, ch)
    \/ focus = "countup" /\ \E a \in cuAnims : \E v \in {(a.from + a.to) \div 2, a.to} : AnimTick(a, v)
    \/ focus = "countup" /\ \E a \in cuAnims : AnimFinish(a)
    \/ CountUpUnmount

Spec == Init /\ [][Next]_vars

\* React runs the passive effects of a commit, and the browser lets a pending
\* timer's delay pass and then runs its callback.
FairSpec ==
    /\ Spec
    /\ WF_vars(SankeyEffects)
    /\ WF_vars(focus = "sankey" /\ \E t \in timers : TimerElapse(t))
    /\ WF_vars(focus = "sankey" /\ \E t \in timers : TimerFire(t))

\* mouse events delivered in any order: a move on one element may also come
\* before the leave of another
NextAnyOrder ==
    \/ Next
    \/ focus = "sankey" /\ \E el \in Elements : MoveBeforeLeave(el)
    \/ LateLeave

SpecAnyOrder == Init /\ [][NextAnyOrder]_vars

\* ================================================================== claims
\* the component has rendered at least once: baseGraph holds buildSankeyGraph()
sankeyBuilt == skPhase # "unmounted"

EndpointSet(edges) == {edges[i].source : i \in 1..Len(edges)} \cup
                      {edges[i].target : i \in 1..Len(edges)}

NodeNames(g) == {g.nodes[i].name : i \in 1..Len(g.nodes)}

\* C1: the nodes buildSankeyGraph returns are exactly the distinct names that
\* occur as source or target of any edge of the input (those of edges that are
\* filtered out as links too), each name once, and every returned link has its
\* source name and its target name among the nodes.
C1_NodesAreEndpoints ==
    sankeyBuilt =>
        /\ NodeNames(baseGraph) = EndpointSet(sankeyData)
        /\ \A i, j \in 1..Len(baseGraph.nodes) :
               baseGraph.nodes[i].name = baseGraph.nodes[j].name => i = j
        /\ \A k \in 1..Len(baseGraph.links) :
               /\ baseGraph.links[k].sourceName \in NodeNames(baseGraph)
               /\ baseGraph.links[k].targetName \in NodeNames(baseGraph)

\* C1 witness: a graph built from three edges that share endpoints, one of
\* them below the threshold with an endpoint ("heat") no kept edge has
C1_Witness ==
    /\ sankeyBuilt
    /\ Len(sankeyData) = 3
    /\ \E i \in 1..3 : sankeyData[i].source = "heat" /\ ~keepsLink(sankeyData[i])
    /\ \A i \in 1..3 : sankeyData[i].target # "heat" /\ (sankeyData[i].source = "heat" => ~keepsLink(sankeyData[i]))
    /\ "heat" \in NodeNames(baseGraph)
    /\ Len(baseGraph.nodes) < 6
    /\ Len(baseGraph.links) = 2

\* links holds one link per edge of kept, in the same order, with the edge's
\* source name, target name and value
LinksOfEdges(links, kept) ==
    /\ Len(links) = Len(kept)
    /\ \A i \in 1..Len(kept) :
           /\ links[i].sourceName = kept[i].source
           /\ links[i].targetName = kept[i].target
           /\ links[i].value = kept[i].value

atOrAboveThreshold(d) == d.value >= LINK_MIN_VALUE
aboveThreshold(d) == d.value > LINK_MIN_VALUE

\* C2 as stated: buildSankeyGraph skips every edge whose value is below 0.1
\* and turns every edge whose value is at or above 0.1 into exactly one link
\* with the same source name, target name and value, in input order.
C2_Original ==
    sankeyBuilt => LinksOfEdges(baseGraph.links, SelectSeq(sankeyData, atOrAboveThreshold))

\* C2 amended: buildSankeyGraph skips every edge whose value is at or below
\* 0.1 and turns every edge whose value is strictly above 0.1 into exactly one
\* link with the same source name, target name and value, in input order.
C2_LinksAboveThreshold ==
    sankeyBuilt => LinksOfEdges(baseGraph.links, SelectSeq(sankeyData, aboveThreshold))

\* C2 witness: a graph built from an edge above, an edge at and an edge below
\* the threshold; only the first became a link
C2_Witness ==
    /\ sankeyBuilt
    /\ \E i, j, k \in 1..Len(sankeyData) :
           /\ sankeyData[i].value > LINK_MIN_VALUE
           /\ sankeyData[j].value = LINK_MIN_VALUE
           /\ sankeyData[k].value < LINK_MIN_VALUE
    /\ Len(sankeyData) = 3
    /\ Len(baseGraph.links) = 1

\* the colour a table gives a name: its entry, or the gray when it has none
TableFill(table, name) == IF name \in DOMAIN table THEN table[name] ELSE FALLBACK_GRAY

\* the segments of the generation-mix bar as rendered
barSegments == stackBarSegments(data.generation, donutMemo.displayOrder, hasAnimated["donut"])

SankeyFillsFromTable ==
    skPhase = "mounted" =>
        \A i \in 1..Len(graph.nodes) :
            nodeFill(graph.nodes[i]) = TableFill(NODE_COLORS, graph.nodes[i].name)

BarFillsFromTable ==
    \A i \in 1..Len(barSegments) :
        barSegments[i].fill = TableFill(ELECTRICITY_COLORS, barSegments[i].name)

C4_Original ==
    \A key \in PlotDatasetKeys : \A col \in ScenarioColumns :
        /\ columnSum(plotDatasets[key], col) >= 95
        /\ columnSum(plotDatasets[key], col) <= 105

\* C4 amended: in each of the four plot datasets the shares of the BAU column
\* sum to 100; the shares of scen3, scen2 and scen15 sum to 86, 80 and 76 (they
\* are shares of the BAU total), which is not within 5 of 100.
C4_ColumnSums ==
    \A key \in PlotDatasetKeys :
        /\ columnSum(plotDatasets[key], "BAU") = 100
        /\ columnSum(plotDatasets[key], "scen3") = 86
        /\ columnSum(plotDatasets[key], "scen2") = 80
        /\ columnSum(plotDatasets[key], "scen15") = 76

\* C4 witness: the revealed material chart showing the expansion dataset,
\* whose scen15 column sums to 76
C4_Witness ==
    /\ ready
    /\ datasetKey = "expansion"
    /\ columnSum(plotDatasets[datasetKey], "scen15") = 76
    /\ SeqSum([i \in 1..Len(mcMemo.chartData) |-> mcMemo.chartData[i].BAU]) = 100

\* C5: in each chart the reveal flag (hasAnimated / ready) is false initially,
\* is true once the container was reported in view and the reveal effect has
\* run (and only then), and is never set back to false by a later event.
C5_RevealOnce ==
    /\ \A c \in Charts : ~flagOf(c)
    /\ [](\A c \in Charts :
            /\ flagOf(c) => isInView[c]
            /\ (chartMounted(c) /\ isInView[c] /\ ~revealDirty[c]) => flagOf(c))
    /\ [][\A c \in Charts : flagOf(c) => flagOf(c)']_vars

\* C5 witness: the revealed Sankey after its container left the viewport
\* again, resized away from the initial width and with a node hovered
C5_Witness ==
    /\ hasAnimated["sankey"]
    /\ ~inViewport["sankey"]
    /\ size.width # INITIAL_WIDTH
    /\ hoveredNodeName # None

\* C6: of one CountUp instance at most one animation is running at any time,
\* a re-run of the effect or the unmount stops the running animation (none is
\* running after the unmount), and the displayed value does not change after
\* the unmount.
C6_OneAnimation ==
    /\ [](/\ Cardinality(cuAnims) <= 1
          /\ \A a \in cuAnims : cuCleanup = Some(a.id)
          /\ ~cuMounted => cuAnims = {})
    /\ [][~cuMounted => cuDisplay' = cuDisplay]_vars

\* C6 witness: unmounted while the second animation of the instance was
\* running (the displayed value is between its start and its target)
C6_Witness ==
    /\ ~cuMounted
    /\ cuNextId >= 2
    /\ cuProps.start
    /\ cuDisplay # cuProps.target
    /\ cuDisplay # cuProps.startValue
    /\ cuAnims = {}

BASE_NODE_FIELDS == {"name", "color"}
BASE_LINK_FIELDS == {"source", "target", "value", "sourceName", "targetName"}

\* C7: no operation changes the static data: after any number of layout runs
\* the base graph is the graph buildSankeyGraph returned (its nodes carry no
\* layout fields, its links' sources and targets are names), and plotDatasets
\* holds the literal rows in their literal order.
C7_StaticDataUnchanged ==
    /\ plotDatasets = plotDatasetsLiteral
    /\ sankeyBuilt =>
           /\ \A i \in 1..Len(baseGraph.nodes) :
                  DOMAIN baseGraph.nodes[i] = BASE_NODE_FIELDS
           /\ \A k \in 1..Len(baseGraph.links) :
                  /\ DOMAIN baseGraph.links[k] = BASE_LINK_FIELDS
                  /\ baseGraph.links[k].source \in NodeNames(baseGraph)
                  /\ baseGraph.links[k].target \in NodeNames(baseGraph)
           /\ baseGraph = buildSankeyGraph(sankeyData)

\* C7 witness: the Sankey laid out again after a resize (the laid-out nodes
\* carry coordinates, the laid-out links' sources are node objects)
C7_Witness ==
    /\ skPhase = "mounted"
    /\ size.width # INITIAL_WIDTH
    /\ Len(graph.links) >= 2
    /\ \A k \in 1..Len(graph.links) : graph.links[k].source.name = graph.links[k].sourceName
    /\ \E i \in 1..Len(graph.nodes) : graph.nodes[i].x0 > 0
    /\ Len(baseGraph.links) >= 2

\* C8: the entrance is staged left to right: the node delay is depth * 200 ms
\* and the link delay 160 ms + source depth * 200 ms; for every link the delay
\* of its source node is strictly less than the link's, and the link's
\* strictly less than that of its target node; nodes of depth 0 have delay 0.
C8_StagedEntrance ==
    skPhase = "mounted" =>
        /\ \A i \in 1..Len(graph.nodes) :
               /\ nodeDelayMs(graph.nodes[i]) = graph.nodes[i].depth * 200
               /\ graph.nodes[i].depth = 0 => nodeDelayMs(graph.nodes[i]) = 0
        /\ \A k \in 1..Len(graph.links) :
               /\ linkDelayMs(graph.links[k]) = 160 + graph.links[k].source.depth * 200
               /\ nodeDelayMs(graph.links[k].source) < linkDelayMs(graph.links[k])
               /\ linkDelayMs(graph.links[k]) < nodeDelayMs(graph.links[k].target)

\* C8 witness: a laid-out graph of three columns: a link out of a node of
\* depth 1 and a link out of a node of depth 0
C8_Witness ==
    /\ skPhase = "mounted"
    /\ \E k \in 1..Len(graph.links) :
           graph.links[k].source.depth = 1 /\ graph.links[k].target.depth = 2
    /\ \E k \in 1..Len(graph.links) :
           graph.links[k].source.depth = 0 /\ linkDelayMs(graph.links[k]) = 160

sankeyRevealed == skPhase = "mounted" /\ hasAnimated["sankey"]

LinkOpacities(highlighted, other) ==
    \A k \in 1..Len(graph.links) :
        linkOpacity(graph.links[k]) = IF k \in highlighted THEN 42 ELSE other

NodeOpacities(highlighted, other) ==
    \A i \in 1..Len(graph.nodes) :
        nodeOpacity(graph.nodes[i]) = IF graph.nodes[i].name \in highlighted THEN 95 ELSE other

\* C9: after the reveal, while the pointer is over a link that link has
\* opacity 0.42 and every other link 0.1, its source and target nodes have 0.95
\* and every other node 0.3; while the pointer is over a node that node has
\* 0.95 and every other node 0.3, the links into and out of it have 0.42 and
\* every other link 0.1; while it is over no element every link has 0.35 and
\* every node 0.9.
C9_HoverOpacities ==
    sankeyRevealed =>
        IF pointer = None
        THEN LinkOpacities({}, 35) /\ NodeOpacities({}, 90)
        ELSE IF pointer[1][1] = "link"
        THEN /\ LinkOpacities({pointer[1][2]}, 10)
             /\ NodeOpacities({graph.links[pointer[1][2]].sourceName,
                               graph.links[pointer[1][2]].targetName}, 30)
        ELSE /\ NodeOpacities({graph.nodes[pointer[1][2]].name}, 30)
             /\ LinkOpacities({k \in 1..Len(graph.links) :
                                  \/ graph.links[k].sourceName = graph.nodes[pointer[1][2]].name
                                  \/ graph.links[k].targetName = graph.nodes[pointer[1][2]].name},
                              10)

\* C9 witness: the pointer over the second of two links of a graph of three
\* nodes, moved there from a node and after a resize
C9_Witness ==
    /\ sankeyRevealed
    /\ pointer = Some(<<"link", 2>>)
    /\ Len(graph.nodes) = 3
    /\ Len(graph.links) = 2
    /\ size.width # INITIAL_WIDTH
    /\ hoveredNodeName = None
    /\ hoveredLinkKey = Some("1")
    /\ linkOpacity(graph.links[1]) = 10
    /\ \E i \in 1..3 : nodeOpacity(graph.nodes[i]) = 30

\* the dataset value of a donut slice: the impact of the source, gridShare
\* for the grid slice
sliceValue(name) == IF name = GRID THEN data.gridShare ELSE data.generation[name].impact

\* the sum of the shares of the sources the bar shows
barTotal == SeqSum([i \in 1..Len(barSegments) |-> data.generation[barSegments[i].name].share])

DonutSlicesPlotted ==
    \A i \in 1..Len(donutMemo.chartData) :
        donutMemo.chartData[i].value =
            IF hasAnimated["donut"] THEN sliceValue(donutMemo.chartData[i].name) ELSE 0

ImpactBarsPlotted ==
    /\ Len(impactChartData) = Len(impactCategories)
    /\ \A i \in 1..Len(impactChartData) : \A col \in {"base", "pkBudg1000", "pkBudg650"} :
           impactChartData[i][col] =
               IF hasAnimated["impact"] THEN impactCategories[i][col] * 100 ELSE 0

MaterialBarsPlotted ==
    /\ Len(mcMemo.chartData) = Len(plotDatasets[datasetKey])
    /\ \A i \in 1..Len(mcMemo.chartData) :
           \E j \in 1..Len(plotDatasets[datasetKey]) :
               /\ plotDatasets[datasetKey][j].label = mcMemo.chartData[i].category
               /\ \A col \in ScenarioColumns :
                      mcMemo.chartData[i][col] =
                          IF ready THEN plotDatasets[datasetKey][j][col] ELSE 0

SankeyHiddenUntilRevealed ==
    (skPhase = "mounted" /\ ~hasAnimated["sankey"]) =>
        /\ \A k \in 1..Len(graph.links) : linkOpacity(graph.links[k]) = 0
        /\ \A i \in 1..Len(graph.nodes) : nodeOpacity(graph.nodes[i]) = 0

\* C10 as stated: until a chart is revealed every value it plots is 0 and
\* every Sankey node and link has opacity 0; from the reveal on every plotted
\* value is the dataset value (impact-category values multiplied by 100), the
\* generation-mix bar segments included.
C10_Original ==
    /\ DonutSlicesPlotted
    /\ ImpactBarsPlotted
    /\ MaterialBarsPlotted
    /\ SankeyHiddenUntilRevealed
    /\ \A i \in 1..Len(barSegments) :
           barSegments[i].value =
               IF hasAnimated["donut"] THEN data.generation[barSegments[i].name].share ELSE 0

\* C10 amended: as stated, except that a generation-mix bar segment plots,
\* from the reveal on, the source's share of the sum of the shares shown (the
\* shares of at least 2) in percent, rounded to one decimal.
C10_PlottedValues ==
    /\ DonutSlicesPlotted
    /\ ImpactBarsPlotted
    /\ MaterialBarsPlotted
    /\ SankeyHiddenUntilRevealed
    /\ \A i \in 1..Len(barSegments) :
           IF hasAnimated["donut"]
           THEN LET share == data.generation[barSegments[i].name].share
                    off == barSegments[i].value * barTotal - 1000 * share
                IN  2 * off <= barTotal /\ -2 * off <= barTotal
           ELSE barSegments[i].value = 0

\* C10 witness: the revealed donut whose bar leaves out a source with a share
\* below 2, so that the segment of "Coal" (share 50.0) plots 50.5
C10_Witness ==
    /\ hasAnimated["donut"]
    /\ data.generation["Coal"].share = 500
    /\ data.generation["Tidal"].share < MIN_SHARE
    /\ \E i \in 1..Len(barSegments) :
           barSegments[i].name = "Coal" /\ barSegments[i].value = 505
    /\ \E i \in 1..Len(donutMemo.chartData) :
           /\ donutMemo.chartData[i].name = "Coal"
           /\ donutMemo.chartData[i].value = data.generation["Coal"].impact

\* the category labels on the x axis, left to right
DisplayedLabels == [i \in 1..Len(mcMemo.chartData) |-> mcMemo.chartData[i].category]

\* the BAU share the selected dataset gives a category
BAUShare(label) ==
    LET rows == plotDatasets[datasetKey]
    IN  rows[CHOOSE j \in 1..Len(rows) : rows[j].label = label].BAU

\* C11 as stated: with materials, components or processes selected the
\* categories are displayed in descending order of their BAU share in the
\* dataset, except that every "other" category comes after every category that
\* is not; with expansion selected they are displayed in the dataset's order.
\* In every reachable state, before and after the reveal.
C11_Original ==
    IF datasetKey = "expansion"
    THEN DisplayedLabels = [j \in 1..Len(plotDatasets[datasetKey]) |->
                               plotDatasets[datasetKey][j].label]
    ELSE \A i, j \in 1..Len(DisplayedLabels) :
            i < j =>
                /\ isOther(DisplayedLabels[i]) => isOther(DisplayedLabels[j])
                /\ (isOther(DisplayedLabels[i]) <=> isOther(DisplayedLabels[j])) =>
                       BAUShare(DisplayedLabels[i]) >= BAUShare(DisplayedLabels[j])

\* C12 as stated: the reveal of the material chart (ready going from false to
\* true) leaves the sequence of displayed category labels as it was.
C12_Original ==
    [][(~ready /\ ready') => DisplayedLabels' = DisplayedLabels]_vars

\* the largest value of the selected dataset, and 1 when that is larger
rawMax ==
    Max2(SetMax({plotDatasets[datasetKey][j][col] :
                    j \in 1..Len(plotDatasets[datasetKey]), col \in ScenarioColumns}), 1)

\* n is min(ceil(1.05 * m), 120): the least whole number that is at least
\* 1.05 * m, or 120 when that is more than 120
IsCappedCeiling(n, m) ==
    IF 105 * m > 100 * 120 THEN n = 120
    ELSE 100 * n >= 105 * m /\ 100 * (n - 1) < 105 * m

\* C13: the y-axis maximum is min(ceil(1.05 * max(largest value of the
\* selected dataset, 1)), 120), computed from the raw values, so the reveal
\* leaves it unchanged; every displayed bar value is at most yMax, and yMax is
\* at most 120.
C13_YMax ==
    /\ [](/\ IsCappedCeiling(yMax(mcMemo.maxValue), rawMax)
          /\ yMax(mcMemo.maxValue) <= 120
          /\ \A i \in 1..Len(mcMemo.chartData) : \A col \in ScenarioColumns :
                 mcMemo.chartData[i][col] <= yMax(mcMemo.maxValue))
    /\ [][(~ready /\ ready') => yMax(mcMemo.maxValue') = yMax(mcMemo.maxValue)]_vars

\* C13 witness: the revealed chart showing the processes dataset (largest
\* value 34, yMax 36), its largest bar plotted
C13_Witness ==
    /\ ready
    /\ datasetKey = "processes"
    /\ yMax(mcMemo.maxValue) = 36
    /\ \E i \in 1..Len(mcMemo.chartData) : mcMemo.chartData[i].BAU = 34

\* the stagger is in force: revealed and the entrance not yet complete
staggerInForce == hasAnimated["sankey"] /\ ~entryComplete

\* the largest stagger delay of any node or link of the laid-out graph
maxDelay ==
    SetMax({0} \cup {nodeDelayMs(graph.nodes[i]) : i \in 1..Len(graph.nodes)}
               \cup {linkDelayMs(graph.links[k]) : k \in 1..Len(graph.links)})

\* C14: once the Sankey is revealed and the container size stops changing,
\* entryComplete eventually becomes true (the timer's delay passes and its
\* callback runs) unless the component is unmounted first, and entryComplete
\* stays true; while entryComplete is true or the diagram is not yet revealed
\* the transition delay of every node, link and label is 0 ms, and the stagger
\* delay applies exactly while hasAnimated and not entryComplete.
C14_EntryCompletes ==
    /\ \/ []<><<size' # size>>_vars
       \/ [](sankeyRevealed => <>(entryComplete \/ skPhase = "destroyed"))
    /\ [][entryComplete => entryComplete']_vars
    /\ [](skPhase = "mounted" =>
            /\ \A k \in 1..Len(graph.links) :
                  linkTransitionDelayMs(graph.links[k]) =
                      IF staggerInForce THEN linkDelayMs(graph.links[k]) ELSE 0
            /\ \A i \in 1..Len(graph.nodes) :
                  /\ nodeTransitionDelayMs(graph.nodes[i]) =
                         IF staggerInForce THEN nodeDelayMs(graph.nodes[i]) ELSE 0
                  /\ labelTransitionDelayMs(graph.nodes[i]) =
                         IF staggerInForce THEN nodeDelayMs(graph.nodes[i]) ELSE 0)

\* C14 witness: the entrance complete after a resize, no timer pending, and a
\* node of the second layer (stagger delay 200 ms) with transition delay 0
C14_Witness ==
    /\ skPhase = "mounted"
    /\ entryComplete
    /\ timers = {}
    /\ size.width = 760
    /\ \E i \in 1..Len(graph.nodes) :
          nodeDelayMs(graph.nodes[i]) = 200 /\ nodeTransitionDelayMs(graph.nodes[i]) = 0

\* C15 as stated: a pending entry timer has the delay maxDelay + 900 ms, and
\* that is no earlier than the end (own stagger delay plus own transition
\* duration) of the entrance transition of every link, node rect and label.
C15_Original ==
    skPhase = "mounted" =>
        \A t \in timers :
            /\ t.ms = maxDelay + 900
            /\ \A k \in 1..Len(graph.links) : \A d \in linkTransitionsMs :
                  linkDelayMs(graph.links[k]) + d <= t.ms
            /\ \A i \in 1..Len(graph.nodes) :
                  /\ \A d \in nodeTransitionsMs : nodeDelayMs(graph.nodes[i]) + d <= t.ms
                  /\ \A d \in labelTransitionsMs : nodeDelayMs(graph.nodes[i]) + d <= t.ms

\* C16: under every interleaving of reveal, resizes, timer expiry and unmount
\* at most one entry timer is pending, no timer is pending while hasAnimated is
\* false, entryComplete implies hasAnimated, and after unmount no timer is
\* pending, so entryComplete is not set on the unmounted component.
C16_EntryTimer ==
    /\ [](/\ Cardinality(timers) <= 1
          /\ ~hasAnimated["sankey"] => timers = {}
          /\ entryComplete => hasAnimated["sankey"]
          /\ skPhase = "destroyed" => timers = {})
    /\ [][skPhase = "destroyed" => entryComplete' = entryComplete]_vars

\* C16 witness: a timer pending although the entrance is already complete (the
\* effect ran again after a resize and armed the one pending timer)
C16_Witness ==
    /\ skPhase = "mounted"
    /\ entryComplete
    /\ size.width = 760
    /\ Cardinality(timers) = 1
    /\ entryCleanup # None

\* C17: before the reveal the nodes and links accept no pointer events, so
\* while hasAnimated is false the tooltip, hoveredLinkKey, hoveredLinkNodes and
\* hoveredNodeName are all null.
C17_NoHoverBeforeReveal ==
    ~hasAnimated["sankey"] =>
        /\ tooltip = None
        /\ hoveredLinkKey = None
        /\ hoveredLinkNodes = None
        /\ hoveredNodeName = None

\* C17 witness: the diagram laid out with links and nodes, resized, in the
\* viewport, and not yet revealed
C17_Witness ==
    /\ skPhase = "mounted"
    /\ ~hasAnimated["sankey"]
    /\ inViewport["sankey"]
    /\ size.width = 760
    /\ Len(graph.links) = 2

\* some link, some node is drawn with an opacity other than the idle one
linksDimmed == \E k \in 1..Len(graph.links) : linkOpacity(graph.links[k]) # LINK_OPACITY_IDLE
nodesDimmed == \E i \in 1..Len(graph.nodes) : nodeOpacity(graph.nodes[i]) # NODE_OPACITY_IDLE

\* C18: after any sequence of mouse-move and mouse-leave events hoveredLinkKey
\* is null exactly when hoveredLinkNodes is null; when both are set,
\* hoveredLinkNodes is the pair (source name, target name) of the link that
\* hoveredLinkKey identifies; and the links and the nodes of a revealed diagram
\* agree on whether dimming is active.
C18_LinkHoverPair ==
    /\ hoveredLinkKey = None <=> hoveredLinkNodes = None
    /\ hoveredLinkKey # None =>
          \E k \in 1..Len(graph.links) :
              /\ linkKey(graph.links[k]) = hoveredLinkKey[1]
              /\ hoveredLinkNodes = Some(<<graph.links[k].sourceName, graph.links[k].targetName>>)
    /\ (sankeyRevealed /\ Len(graph.links) > 0) => (linksDimmed <=> nodesDimmed)

\* C18 witness: the second link (aluminum to cables) recorded as hovered, with
\* its pair of names, while the pointer is already on another element whose
\* move came before this link's leave
C18_Witness ==
    /\ pendingLeave = Some(<<"link", 2>>)
    /\ hoveredLinkKey = Some(linkKey(graph.links[2]))
    /\ hoveredLinkNodes = Some(<<"aluminum", "cables">>)
    /\ linksDimmed

\* a link or a node is recorded as hovered
hoverRecorded == hoveredLinkKey # None \/ hoveredNodeName # None

\* the title and value of an element: source and target name and value of a
\* link, name and value of a node
elementTooltip(el) ==
    IF el[1] = "link"
    THEN [title |-> graph.links[el[2]].sourceName \o " -> " \o graph.links[el[2]].targetName,
          value |-> Some(graph.links[el[2]].value)]
    ELSE [title |-> graph.nodes[el[2]].name,
          value |-> IF "value" \in DOMAIN graph.nodes[el[2]]
                    THEN Some(graph.nodes[el[2]].value) ELSE None]

\* C19 as stated: after any sequence of mouse-move and mouse-leave events, in
\* any order, the tooltip is shown exactly when a link or node is recorded as
\* hovered, and when shown its title and value are those of the element of the
\* most recent mouse-move.
C19_Original ==
    /\ tooltip # None <=> hoverRecorded
    /\ tooltip # None => pointer # None /\ tooltip = Some(elementTooltip(pointer[1]))

\* C19, amended: in any order of the events the tooltip is shown only when a
\* link or node is recorded as hovered, and when shown its title and value are
\* those of the element of the most recent mouse-move; deliveries in the
\* browser's order (each leave before the move on the next element) keep
\* "shown exactly when a link or node is recorded as hovered" true.
C19_TooltipFollowsMove ==
    /\ [](tooltip # None =>
            /\ hoverRecorded
            /\ pointer # None
            /\ tooltip = Some(elementTooltip(pointer[1])))
    /\ [][(/\ pendingLeave = None
           /\ pendingLeave' = None
           /\ tooltip # None <=> hoverRecorded)
              => (tooltip' # None <=> hoverRecorded')]_vars

\* C19 witness: the tooltip of a node shown after a move on that node that
\* came before the leave of the link the pointer was over
C19_Witness ==
    /\ pendingLeave # None
    /\ pendingLeave[1][1] = "link"
    /\ pointer # None
    /\ pointer[1][1] = "node"
    /\ hoveredLinkKey # None
    /\ hoveredNodeName = Some(graph.nodes[pointer[1][2]].name)
    /\ tooltip = Some(elementTooltip(pointer[1]))

====
